---------------------------- MODULE Spec2Model ----------------------------
(***************************************************************************)
(* Model of the pipeline controller of pkg/controller/pipeline:            *)
(* the informer event handlers, the rate limiting work queue, the worker   *)
(* loop (processNextWorkItem) and the reconciliation handler (syncHandler) *)
(* together with the three systems the handler talks to: the API server    *)
(* (store), the informer cache (lister) and the DevOps service (Jenkins).  *)
(***************************************************************************)
EXTENDS Integers, Sequences, FiniteSets, TLC

(***************************************************************************)
(* Bounds of the model.                                                    *)
(***************************************************************************)
\* number of changes users make to the pipeline resource and its namespace
MaxUserOps == 2
\* the same, where the controller is followed for ever (LiveSpec)
LiveUserOps == 1

(***************************************************************************)
(* Names used by the handler.                                              *)
(***************************************************************************)
PipelineFinalizerName == "pipeline.finalizers.kubesphere.io"
OtherFinalizerName == "foregroundDeletion"
PipelineSyncStatusAnnoKey == "pipeline.devops.kubesphere.io/syncstatus"
PipelineSpecHash == "pipeline.devops.kubesphere.io/spechash"
DevOpsProjectLabelKey == "kubesphere.io/devopsproject"
ResourceKindDevOpsProject == "DevOpsProject"
OtherKind == "Workspace"
\* Go strings that are compared or computed are sequences of characters.
StatusSuccessful == <<"s", "u", "c", "c", "e", "s", "s", "f", "u", "l">>
EmptyString == <<>>
StatusNotFound == 404
StatusInternalServerError == 500

(***************************************************************************)
(* computeHash: FNV-1a (32 bit) of the printed spec, the sum printed in    *)
(* decimal and passed through rand.SafeEncodeString.  A 32 bit word is a   *)
(* pair of 16 bit halves, so that no intermediate product exceeds 32 bits. *)
(***************************************************************************)
Half == 65536
FnvOffsetHi == 33052
FnvOffsetLo == 40389
FnvPrimeHi == 256
FnvPrimeLo == 403

RECURSIVE BitXor(_, _, _)
BitXor(a, b, n) ==
    IF n = 0 THEN 0
    ELSE (((a % 2) + (b % 2)) % 2) + 2 * BitXor(a \div 2, b \div 2, n - 1)

\* hash ^= byte; hash *= prime32 (mod 2^32)
FnvStep(h, byte) ==
    LET lo == (h.lo \div 256) * 256 + BitXor(h.lo % 256, byte, 8)
        t  == lo * FnvPrimeLo
    IN  [hi |-> (h.hi * FnvPrimeLo + lo * FnvPrimeHi + (t \div Half)) % Half,
         lo |-> t % Half]

RECURSIVE FnvWrite(_, _)
FnvWrite(h, bytes) ==
    IF bytes = <<>> THEN h
    ELSE FnvWrite(FnvStep(h, Head(bytes)), Tail(bytes))

\* the spec as printed by spew with "%#v" is a byte string
deepHashObject(objectToWrite) ==
    FnvWrite([hi |-> FnvOffsetHi, lo |-> FnvOffsetLo], objectToWrite)

\* fmt.Sprint of an unsigned 32 bit number: its decimal digits, as byte codes
Sprint(h) ==
    LET digits[n \in [hi : 0..(Half - 1), lo : 0..(Half - 1)]] ==
            IF n.hi = 0 /\ n.lo < 10 THEN <<48 + n.lo>>
            ELSE LET t == (n.hi % 10) * Half + n.lo
                 IN  Append(digits[[hi |-> n.hi \div 10, lo |-> t \div 10]],
                            48 + (t % 10))
    IN  digits[h]

alphanums ==
    <<"b", "c", "d", "f", "g", "h", "j", "k", "l", "m", "n", "p", "q", "r",
      "s", "t", "v", "w", "x", "z", "2", "4", "5", "6", "7", "8", "9">>

SafeEncodeString(s) ==
    [i \in 1..Len(s) |-> alphanums[(s[i] % Len(alphanums)) + 1]]

computeHash(obj) == SafeEncodeString(Sprint(deepHashObject(obj)))

\* the specs users give a pipeline, as printed
Specs == {<<97>>, <<98>>}

\* specHash := computeHash(copyPipeline.Spec)
specHash(p) == computeHash(p.spec)

\* the pipelines of the model, as namespace/name keys
Keys == {<<"devops", "pipeline">>}
\* the goroutines started by Run
Workers == {"w1", "w2"}

(***************************************************************************)
(* Values.                                                                 *)
(***************************************************************************)
\* a lister's or client's answer for an object that does not exist
NotFound == [notFound |-> TRUE]
EmptyMap == [a \in {} |-> EmptyString]
NoError == [type |-> "nil", code |-> 0]
ServiceError(code) == [type |-> "ServiceError", code |-> code]
ErrorResponse(code) == [type |-> "ErrorResponse", code |-> code]
OtherError == [type |-> "error", code |-> 0]
NoConfig == [exists |-> FALSE, spec |-> <<>>]

\* a pipeline as users create it (metadata.annotations nil, no deletionTimestamp)
NewPipeline(spec, finalizers, rv) ==
    [spec |-> spec, deletionTimestamp |-> FALSE, finalizers |-> finalizers,
     annotations |-> EmptyMap, resourceVersion |-> rv]

\* the namespaces of the model: labels and the kinds of the owner references
Namespaces ==
    {[labels |-> {DevOpsProjectLabelKey}, ownerReferences |-> <<ResourceKindDevOpsProject>>],
     [labels |-> {DevOpsProjectLabelKey}, ownerReferences |-> <<OtherKind>>],
     [labels |-> {}, ownerReferences |-> <<ResourceKindDevOpsProject>>]}

\* Go's map read: the zero value for a missing key
MapGet(m, k) == IF k \in DOMAIN m THEN m[k] ELSE EmptyString
MapSet(m, k, v) == [a \in DOMAIN m \cup {k} |-> IF a = k THEN v ELSE m[a]]

HasString(slice, str) == \E i \in 1..Len(slice) : slice[i] = str
RemoveString(slice, str) == SelectSeq(slice, LAMBDA item : item # str)

IsControlledBy(ownerReferences, kind) ==
    \E i \in 1..Len(ownerReferences) : ownerReferences[i] = kind

\* mutant: the owner reference is not looked at
isDevOpsProjectAdminNamespace_LabelOnly(namespace) ==
    DevOpsProjectLabelKey \in namespace.labels

isDevOpsProjectAdminNamespace(namespace) ==
    /\ DevOpsProjectLabelKey \in namespace.labels
    /\ IsControlledBy(namespace.ownerReferences, ResourceKindDevOpsProject)

(***************************************************************************)
(* The rate limiting work queue: queue holds the keys to hand out in       *)
(* order, dirty the keys that need processing, processing the keys that    *)
(* are checked out, waiting the keys whose delayed add has not fired yet,  *)
(* failures the keys the rate limiter holds a failure count (and so a      *)
(* longer next delay) for.                                                 *)
(***************************************************************************)
NewQueue ==
    [queue |-> <<>>, dirty |-> {}, processing |-> {}, waiting |-> {},
     failures |-> {}, shuttingDown |-> FALSE]

Add(q, item) ==
    IF q.shuttingDown \/ item \in q.dirty THEN q
    ELSE IF item \in q.processing THEN [q EXCEPT !.dirty = @ \cup {item}]
    ELSE [q EXCEPT !.dirty = @ \cup {item}, !.queue = Append(@, item)]

Get(q) ==
    [q EXCEPT !.queue = Tail(@),
              !.processing = @ \cup {Head(q.queue)},
              !.dirty = @ \ {Head(q.queue)}]

Done(q, item) ==
    IF item \in q.dirty
    THEN [q EXCEPT !.processing = @ \ {item}, !.queue = Append(@, item)]
    ELSE [q EXCEPT !.processing = @ \ {item}]

\* rateLimiter.When counts the failure, AddAfter parks the key until its delay is over
AddRateLimited(q, item) ==
    LET counted == [q EXCEPT !.failures = @ \cup {item}]
    IN  IF q.shuttingDown THEN counted
        ELSE [counted EXCEPT !.waiting = @ \cup {item}]

Forget(q, item) == [q EXCEPT !.failures = @ \ {item}]

ShutDown(q) == [q EXCEPT !.shuttingDown = TRUE]

VARIABLES
    store,          \* the API server: key -> pipeline or NotFound
    watch,          \* key -> the versions the informer has not delivered yet
    cache,          \* the informer's cache, read by devOpsProjectLister
    hasSynced,      \* the pipeline informer has delivered its initial list
    namespace,      \* namespaceLister's answer for the namespace of the keys
    namespaceSynced, \* the namespace informer has delivered its initial list
    remote,         \* the DevOps service: key -> the pipeline config it holds
    workqueue,
    userOps,        \* changes users have made
    revision,       \* the API server's last resource version
    run,            \* where Run is
    pc,             \* worker -> where the worker is
    obj,            \* worker -> the key it got from the queue
    pipeline,       \* worker -> the pipeline the handler read
    copyPipeline,   \* worker -> the handler's mutated copy
    err,            \* worker -> what syncHandler returned
    calls,          \* worker -> the devopsClient calls of this invocation, in order
    deleted,        \* worker -> what DeleteProjectPipeline answered in this invocation
    jenkinsPipeline, \* worker -> what GetProjectPipelineConfig answered in this run
    callErr,        \* worker -> err of this run's Create-/UpdateProjectPipeline call
    lookup,         \* worker -> what the two listers answered in this invocation
    updates,        \* worker -> the store writes of this invocation and their answers
    lastSynced,     \* history: key -> the spec of the last successful sync
    lost,           \* history: key -> the last remote change whose store write failed
    dedup           \* history: key -> enqueues since the last pull, pulls since the last enqueue

vars ==
    <<store, watch, cache, hasSynced, namespace, namespaceSynced, remote,
      workqueue, userOps, revision, run, pc, obj, pipeline, copyPipeline, err,
      calls, deleted, jenkinsPipeline, callErr, lookup, updates, lastSynced,
      lost, dedup>>

envVars ==
    <<store, watch, cache, hasSynced, namespace, namespaceSynced, remote,
      userOps, revision, lastSynced, lost>>
localVars ==
    <<obj, pipeline, copyPipeline, err, calls, deleted, jenkinsPipeline,
      callErr, lookup,
      updates>>

NoKey == <<>>
NoSpec == <<>>
NotCalled == [type |-> "notCalled", code |-> 0]
\* no run of the key has changed the remote config and failed to write
NoLoss == [phase |-> "none", kind |-> "none", pipeline |-> [notFound |-> TRUE]]
\* no GetProjectPipelineConfig call was made
NotRead == [err |-> NotCalled, spec |-> <<>>]

\* the controller as NewController leaves it, the API server holding one of the
\* stored pipelines per key, users having made done changes
InitWith(stored, done) ==
    /\ store \in [Keys -> stored]
    /\ watch = [k \in Keys |-> <<>>]
    /\ cache = [k \in Keys |-> NotFound]
    /\ hasSynced = FALSE
    /\ namespace = NotFound
    /\ namespaceSynced = FALSE
    /\ remote = [k \in Keys |-> NoConfig]
    /\ workqueue = NewQueue
    /\ userOps = done
    /\ revision = 1
    /\ run = "NewController"
    /\ pc = [w \in Workers |-> "notStarted"]
    /\ obj = [w \in Workers |-> NoKey]
    /\ pipeline = [w \in Workers |-> NotFound]
    /\ copyPipeline = [w \in Workers |-> NotFound]
    /\ err = [w \in Workers |-> "none"]
    /\ calls = [w \in Workers |-> <<>>]
    /\ deleted = [w \in Workers |-> NotCalled]
    /\ jenkinsPipeline = [w \in Workers |-> NotRead]
    /\ callErr = [w \in Workers |-> NotCalled]
    /\ lookup = [w \in Workers |-> "none"]
    /\ updates = [w \in Workers |-> <<>>]
    /\ lastSynced = [k \in Keys |-> NoSpec]
    /\ lost = [k \in Keys |-> NoLoss]
    /\ dedup = [k \in Keys |-> [adds |-> 0, runs |-> 0]]

\* the controller starts on pipelines that users created, or on none
InitAfter(done) ==
    InitWith({NotFound}
             \cup {NewPipeline(<<97>>, f, 1) : f \in {<<>>, <<OtherFinalizerName>>}},
             done)

Init == InitAfter(0)

(***************************************************************************)
(* The API server and its users.                                           *)
(***************************************************************************)
\* an object whose deletion was asked for goes once its last finalizer goes
Finalize(o) ==
    IF o.deletionTimestamp /\ o.finalizers = <<>> THEN NotFound ELSE o

\* a write that the API server accepted, and the watch event it sends;
\* synced is the spec the write reports as synchronized, if it reports one
Commit(k, o, synced) ==
    /\ revision' = revision + 1
    /\ store' = [store EXCEPT ![k] =
                    Finalize([o EXCEPT !.resourceVersion = revision + 1])]
    /\ watch' = [watch EXCEPT ![k] = Append(@, store'[k])]
    /\ lastSynced' = [lastSynced EXCEPT ![k] =
                        IF store'[k] = NotFound THEN NoSpec
                        ELSE IF synced # NoSpec THEN synced
                        ELSE @]

UserCreate(k, spec, finalizers) ==
    /\ hasSynced /\ userOps < MaxUserOps
    /\ store[k] = NotFound
    /\ userOps' = userOps + 1
    /\ Commit(k, NewPipeline(spec, finalizers, 0), NoSpec)
    /\ UNCHANGED <<cache, hasSynced, namespaceSynced, lost, namespace, remote,
                   workqueue, run, pc, dedup>>
    /\ UNCHANGED localVars

UserUpdate(k, spec) ==
    /\ hasSynced /\ userOps < MaxUserOps
    /\ store[k] # NotFound
    /\ ~store[k].deletionTimestamp
    /\ store[k].spec # spec
    /\ userOps' = userOps + 1
    /\ Commit(k, [store[k] EXCEPT !.spec = spec], NoSpec)
    /\ UNCHANGED <<cache, hasSynced, namespaceSynced, lost, namespace, remote,
                   workqueue, run, pc, dedup>>
    /\ UNCHANGED localVars

UserDelete(k) ==
    /\ hasSynced /\ userOps < MaxUserOps
    /\ store[k] # NotFound
    /\ ~store[k].deletionTimestamp
    /\ userOps' = userOps + 1
    /\ Commit(k, [store[k] EXCEPT !.deletionTimestamp = TRUE], NoSpec)
    /\ UNCHANGED <<cache, hasSynced, namespaceSynced, lost, namespace, remote,
                   workqueue, run, pc, dedup>>
    /\ UNCHANGED localVars

\* the owner of the other finalizer finishes its own cleanup
OtherFinalizerDone(k) ==
    /\ hasSynced
    /\ store[k] # NotFound
    /\ store[k].deletionTimestamp
    /\ HasString(store[k].finalizers, OtherFinalizerName)
    /\ Commit(k, [store[k] EXCEPT !.finalizers = RemoveString(@, OtherFinalizerName)],
              NoSpec)
    /\ UNCHANGED <<cache, hasSynced, namespaceSynced, lost, namespace, remote,
                   workqueue, userOps, run, pc, dedup>>
    /\ UNCHANGED localVars

NamespaceChange(n) ==
    /\ hasSynced /\ namespaceSynced /\ userOps < MaxUserOps
    /\ n # namespace
    /\ namespace' = n
    /\ userOps' = userOps + 1
    /\ UNCHANGED <<store, watch, cache, hasSynced, namespaceSynced, lost, remote,
                   workqueue, revision, run, pc, lastSynced, dedup>>
    /\ UNCHANGED localVars

(***************************************************************************)
(* History of the queue, per key: adds counts the enqueues since the key   *)
(* was last pulled, runs the pulls since the key was last enqueued.  Both  *)
(* saturate at two; a failed invocation starts the history afresh.         *)
(***************************************************************************)
Enqueued(d, k) ==
    [d EXCEPT ![k] =
        IF @.runs > 0 THEN [adds |-> 1, runs |-> 0]
        ELSE [adds |-> IF @.adds < 2 THEN @.adds + 1 ELSE @.adds, runs |-> 0]]

Pulled(d, k) == [d EXCEPT ![k].runs = IF @ < 2 THEN @ + 1 ELSE @]

Failed(d, k) == [d EXCEPT ![k] = [adds |-> 0, runs |-> 0]]

RECURSIVE EnqueuedAll(_, _)
EnqueuedAll(d, keys) ==
    IF keys = {} THEN d
    ELSE LET k == CHOOSE key \in keys : TRUE
         IN  EnqueuedAll(Enqueued(d, k), keys \ {k})

(***************************************************************************)
(* The informer and the event handlers NewController registers.            *)
(***************************************************************************)
enqueuePipeline(q, key) == Add(q, key)

UpdateFunc(q, old, new, key) ==
    IF old.resourceVersion = new.resourceVersion THEN q
    ELSE enqueuePipeline(q, key)

RECURSIVE AddFuncAll(_, _)
AddFuncAll(q, keys) ==
    IF keys = {} THEN q
    ELSE LET k == CHOOSE key \in keys : TRUE
         IN  AddFuncAll(enqueuePipeline(q, k), keys \ {k})

\* the initial list: every pipeline that exists is an add event
InformerList ==
    /\ ~hasSynced /\ run # "returned"
    /\ hasSynced' = TRUE
    /\ cache' = store
    /\ workqueue' = AddFuncAll(workqueue, {k \in Keys : store[k] # NotFound})
    /\ dedup' = EnqueuedAll(dedup, {k \in Keys : store[k] # NotFound})
    /\ UNCHANGED <<store, watch, namespace, namespaceSynced, lost, remote, userOps,
                   revision, run, pc, lastSynced>>
    /\ UNCHANGED localVars

\* the initial list of the namespace informer: from now on namespaceLister
\* answers with the namespace as it is, before it answers not found
NamespaceInformerList(n) ==
    /\ ~namespaceSynced /\ run # "returned"
    /\ namespaceSynced' = TRUE
    /\ namespace' = n
    /\ UNCHANGED <<store, watch, cache, hasSynced, remote, workqueue, userOps,
                   revision, run, pc, lastSynced, dedup, lost>>
    /\ UNCHANGED localVars

\* the next watch event of a key: the cache moves on, the handler is called
InformerEvent(k) ==
    /\ hasSynced /\ run # "returned"
    /\ watch[k] # <<>>
    /\ LET old == cache[k]
           new == Head(watch[k])
       IN  /\ cache' = [cache EXCEPT ![k] = new]
           /\ watch' = [watch EXCEPT ![k] = Tail(@)]
           /\ workqueue' =
                IF old = NotFound \/ new = NotFound THEN enqueuePipeline(workqueue, k)
                ELSE UpdateFunc(workqueue, old, new, k)
           /\ dedup' =
                IF old = NotFound \/ new = NotFound
                   \/ old.resourceVersion # new.resourceVersion
                THEN Enqueued(dedup, k)
                ELSE dedup
    /\ UNCHANGED <<store, hasSynced, namespaceSynced, lost, namespace, remote,
                   userOps, revision, run, pc, lastSynced>>
    /\ UNCHANGED localVars

\* the periodic resync: an update event whose old and new object are the same
InformerResync(k) ==
    /\ hasSynced /\ run # "returned"
    /\ cache[k] # NotFound
    /\ workqueue' = UpdateFunc(workqueue, cache[k], cache[k], k)
    /\ UNCHANGED envVars
    /\ UNCHANGED <<run, pc, dedup>>
    /\ UNCHANGED localVars

\* the delaying queue's timer: the delay of a parked key is over
WaitingLoop(k) ==
    /\ k \in workqueue.waiting
    /\ ~workqueue.shuttingDown
    /\ workqueue' = Add([workqueue EXCEPT !.waiting = @ \ {k}], k)
    /\ dedup' = Enqueued(dedup, k)
    /\ UNCHANGED envVars
    /\ UNCHANGED <<run, pc>>
    /\ UNCHANGED localVars

(***************************************************************************)
(* The DevOps service behind devopsClient.  Each call either fails for a   *)
(* reason of its own (fails) or answers from the configs the service holds.*)
(***************************************************************************)
GetProjectPipelineConfig(r, fails) ==
    IF fails THEN [err |-> OtherError, spec |-> <<>>]
    ELSE IF ~r.exists THEN [err |-> ErrorResponse(StatusNotFound), spec |-> <<>>]
    ELSE [err |-> NoError, spec |-> r.spec]

\* creating a job whose name is in use is refused
CreateProjectPipeline(r, p, fails) ==
    IF fails \/ r.exists THEN [err |-> OtherError, remote |-> r]
    ELSE [err |-> NoError, remote |-> [exists |-> TRUE, spec |-> p.spec]]

UpdateProjectPipeline(r, p, fails) ==
    IF fails \/ ~r.exists THEN [err |-> OtherError, remote |-> r]
    ELSE [err |-> NoError, remote |-> [exists |-> TRUE, spec |-> p.spec]]

\* what DeleteProjectPipeline may answer
DeleteAnswers(r) ==
    {ServiceError(StatusInternalServerError), ErrorResponse(StatusInternalServerError),
     OtherError}
    \cup (IF r.exists THEN {NoError}
          ELSE {ServiceError(StatusNotFound), ErrorResponse(StatusNotFound)})

DeleteProjectPipeline(r, answer) ==
    [err |-> answer, remote |-> IF answer = NoError THEN NoConfig ELSE r]

(***************************************************************************)
(* syncHandler, up to its write to the API server.                         *)
(***************************************************************************)
\* the sync-status annotation is there and says successful
statusSuccessful(p) ==
    /\ PipelineSyncStatusAnnoKey \in DOMAIN p.annotations
    /\ p.annotations[PipelineSyncStatusAnnoKey] = StatusSuccessful

\* mutant: the new hash is compared with the wrong annotation
alreadySynced_WrongKey(p) ==
    /\ statusSuccessful(p)
    /\ specHash(p) = MapGet(p.annotations, PipelineSyncStatusAnnoKey)

\* synced successfully and no change of the spec since: skip this round
alreadySynced(p) ==
    /\ statusSuccessful(p)
    /\ specHash(p) = MapGet(p.annotations, PipelineSpecHash)

\* the hash annotation is written where the status is successful and the hash differs
withSpecHash(p) ==
    IF statusSuccessful(p)
    THEN [p EXCEPT !.annotations = MapSet(@, PipelineSpecHash, specHash(p))]
    ELSE p

withFinalizer(p) ==
    IF ~HasString(p.finalizers, PipelineFinalizerName)
    THEN [p EXCEPT !.finalizers = Append(@, PipelineFinalizerName)]
    ELSE p

withSyncStatus(p) ==
    [p EXCEPT !.annotations = MapSet(@, PipelineSyncStatusAnnoKey, StatusSuccessful)]

\* mutant: every finalizer is dropped, not only the controller's
withoutFinalizer_All(p) == [p EXCEPT !.finalizers = <<>>]

withoutFinalizer(p) ==
    [p EXCEPT !.finalizers = RemoveString(@, PipelineFinalizerName)]

\* mutant: every ServiceError counts as a deleted job
delSuccess_AnyServiceError(e) ==
    IF e # NoError
    THEN IF e.type = "ServiceError" THEN TRUE
         ELSE IF e.type = "ErrorResponse" THEN e.code = StatusNotFound
         ELSE FALSE
    ELSE TRUE

\* the answer of DeleteProjectPipeline counts as a deleted job
delSuccess(e) ==
    IF e # NoError
    THEN IF e.type = "ServiceError" THEN e.code = StatusNotFound
         ELSE IF e.type = "ErrorResponse" THEN e.code = StatusNotFound
         ELSE FALSE
    ELSE TRUE

\* the branch of a pipeline that is not being deleted; o says which calls fail
syncLive(p, r, o) ==
    IF alreadySynced(p)
    THEN [ret |-> "nil", copy |-> p, calls |-> <<>>, remote |-> r,
          deleted |-> NotCalled, got |-> NotRead,
          callErr |-> NotCalled]
    ELSE
      LET c == withFinalizer(withSpecHash(p))
          read == GetProjectPipelineConfig(r, o.get)
      IN  IF read.err = NoError
          THEN IF read.spec # c.spec
               THEN LET u == UpdateProjectPipeline(r, c, o.call)
                    IN  [ret |-> IF u.err # NoError THEN "error" ELSE "persist",
                         copy |-> IF u.err # NoError THEN c ELSE withSyncStatus(c),
                         calls |-> <<"GetProjectPipelineConfig", "UpdateProjectPipeline">>,
                         remote |-> u.remote, deleted |-> NotCalled,
                         got |-> read, callErr |-> u.err]
               ELSE [ret |-> "persist", copy |-> withSyncStatus(c),
                     calls |-> <<"GetProjectPipelineConfig">>,
                     remote |-> r, deleted |-> NotCalled, got |-> read,
                     callErr |-> NotCalled]
          ELSE LET n == CreateProjectPipeline(r, c, o.call)
               IN  [ret |-> IF n.err # NoError THEN "error" ELSE "persist",
                    copy |-> IF n.err # NoError THEN c ELSE withSyncStatus(c),
                    calls |-> <<"GetProjectPipelineConfig", "CreateProjectPipeline">>,
                    remote |-> n.remote, deleted |-> NotCalled,
                    got |-> read, callErr |-> n.err]

\* the branch of a pipeline with a deletionTimestamp; answer is the service's
syncDeleting(p, r, answer) ==
    IF HasString(p.finalizers, PipelineFinalizerName)
    THEN LET d == DeleteProjectPipeline(r, answer)
         IN  IF delSuccess(d.err)
             THEN [ret |-> "persist", copy |-> withoutFinalizer(p),
                   calls |-> <<"DeleteProjectPipeline">>,
                   remote |-> d.remote, deleted |-> d.err, got |-> NotRead,
                   callErr |-> NotCalled]
             ELSE [ret |-> "error", copy |-> p,
                   calls |-> <<"DeleteProjectPipeline">>,
                   remote |-> d.remote, deleted |-> d.err, got |-> NotRead,
                   callErr |-> NotCalled]
    ELSE [ret |-> "persist", copy |-> p, calls |-> <<>>, remote |-> r,
          deleted |-> NotCalled, got |-> NotRead, callErr |-> NotCalled]

\* mutant: a lister's not found is returned like any other error
lookupResult_NotFoundIsError(answer) == "error"

\* what syncHandler returns when a lister's answer ends the run: nil where
\* errors.IsNotFound, the error otherwise
lookupResult(answer) ==
    IF answer \in {"namespaceNotFound", "pipelineNotFound"} THEN "nil" ELSE "error"

\* the handler returns before it has read the pipeline; answer is what the
\* lister that ended the run answered
Return(w, answer) ==
    /\ err' = [err EXCEPT ![w] = lookupResult(answer)]
    /\ lookup' = [lookup EXCEPT ![w] = answer]
    /\ pc' = [pc EXCEPT ![w] = "result"]
    /\ UNCHANGED <<envVars, workqueue, run, obj, pipeline, copyPipeline, calls,
                   deleted, jenkinsPipeline, callErr, updates, dedup>>

\* the handler has read the pipeline and is through with one of the two branches
\* the next run of a key whose write was lost is the replay; the run after clears
replayed(l) ==
    IF l.phase = "lost" THEN [l EXCEPT !.phase = "replay"]
    ELSE IF l.phase = "replay" THEN NoLoss
    ELSE l

Reconciled(w, key, p, res) ==
    /\ pipeline' = [pipeline EXCEPT ![w] = p]
    /\ copyPipeline' = [copyPipeline EXCEPT ![w] = res.copy]
    /\ calls' = [calls EXCEPT ![w] = res.calls]
    /\ deleted' = [deleted EXCEPT ![w] = res.deleted]
    /\ jenkinsPipeline' = [jenkinsPipeline EXCEPT ![w] = res.got]
    /\ callErr' = [callErr EXCEPT ![w] = res.callErr]
    /\ lookup' = [lookup EXCEPT ![w] = "found"]
    /\ lost' = [lost EXCEPT ![key] = replayed(@)]
    /\ remote' = [remote EXCEPT ![key] = res.remote]
    /\ IF res.ret = "persist"
       THEN /\ pc' = [pc EXCEPT ![w] = "persist"]
            /\ UNCHANGED err
       ELSE /\ pc' = [pc EXCEPT ![w] = "result"]
            /\ err' = [err EXCEPT ![w] = res.ret]
    /\ UNCHANGED <<store, watch, cache, hasSynced, namespaceSynced, namespace,
                   userOps, revision, workqueue, run, obj, updates, lastSynced,
                   dedup>>

\* syncHandler from its start to the comparison of the copy with the original.
\* The two listers answer from their caches; either may also fail.
syncHandler(w) ==
    /\ pc[w] = "syncHandler"
    /\ \/ Return(w, "namespaceError")
       \/ /\ namespace = NotFound
          /\ Return(w, "namespaceNotFound")
       \/ /\ namespace # NotFound
          /\ ~isDevOpsProjectAdminNamespace(namespace)
          /\ Return(w, "ineligible")
       \/ /\ namespace # NotFound
          /\ isDevOpsProjectAdminNamespace(namespace)
          /\ \/ Return(w, "pipelineError")
             \/ /\ cache[obj[w]] = NotFound
                /\ Return(w, "pipelineNotFound")
             \/ /\ cache[obj[w]] # NotFound
                /\ ~cache[obj[w]].deletionTimestamp
                /\ \E o \in [get : BOOLEAN, call : BOOLEAN] :
                      Reconciled(w, obj[w], cache[obj[w]],
                                 syncLive(cache[obj[w]], remote[obj[w]], o))
             \/ /\ cache[obj[w]] # NotFound
                /\ cache[obj[w]].deletionTimestamp
                /\ \E answer \in DeleteAnswers(remote[obj[w]]) :
                      Reconciled(w, obj[w], cache[obj[w]],
                                 syncDeleting(cache[obj[w]], remote[obj[w]], answer))

\* the API server's answer to Update(copyPipeline)
UpdateAnswer(k, c, fails) ==
    IF fails THEN "error"
    ELSE IF store[k] = NotFound THEN "notFound"
    ELSE IF store[k].resourceVersion # c.resourceVersion THEN "conflict"
    ELSE "ok"

\* mutant: the copy is written back whether it differs or not
needsUpdate_Always(p, c) == TRUE

\* the copy differs from the pipeline as read
needsUpdate(p, c) == p # c

\* a write that fails after the run's create, update or delete succeeded is lost
lostWrite(l, w, answer) ==
    IF answer # "ok" /\ callErr[w] = NoError
    THEN [phase |-> "lost", kind |-> "live", pipeline |-> pipeline[w]]
    ELSE IF answer # "ok" /\ deleted[w] = NoError
    THEN [phase |-> "lost", kind |-> "deleting", pipeline |-> pipeline[w]]
    ELSE l

\* the end of syncHandler: write the copy back if it differs from the original
persist(w) ==
    /\ pc[w] = "persist"
    /\ pc' = [pc EXCEPT ![w] = "result"]
    /\ IF needsUpdate(pipeline[w], copyPipeline[w])
       THEN \E fails \in BOOLEAN :
              LET answer == UpdateAnswer(obj[w], copyPipeline[w], fails)
              IN  /\ updates' = [updates EXCEPT ![w] = Append(@, answer)]
                  /\ err' = [err EXCEPT ![w] = IF answer = "ok" THEN "nil" ELSE "error"]
                  /\ IF answer = "ok"
                     THEN Commit(obj[w], copyPipeline[w],
                                 IF pipeline[w].deletionTimestamp THEN NoSpec
                                 ELSE copyPipeline[w].spec)
                     ELSE UNCHANGED <<store, watch, revision, lastSynced>>
                  /\ lost' = [lost EXCEPT ![obj[w]] = lostWrite(@, w, answer)]
       ELSE /\ err' = [err EXCEPT ![w] = "nil"]
            /\ UNCHANGED <<store, watch, revision, updates, lastSynced, lost>>
    /\ UNCHANGED <<cache, hasSynced, namespaceSynced, namespace, remote,
                   userOps, workqueue, run, obj, pipeline, copyPipeline, calls,
                   deleted, jenkinsPipeline, callErr, lookup, dedup>>

(***************************************************************************)
(* processNextWorkItem, worker and Run.                                    *)
(***************************************************************************)
\* mutant: Done is called at once instead of deferred
checkout_DoneAtOnce(q) == Done(Get(q), Head(q.queue))

\* Get hands out the head of the queue; Done is deferred to the end
checkout(q) == Get(q)

\* mutant: a key that was handled is added again
requeueOrForget_AddOnSuccess(q, key, e) ==
    IF e # "nil" THEN AddRateLimited(q, key) ELSE Add(Forget(q, key), key)

\* mutant: a failed key is not added again
requeueOrForget_NoRetry(q, key, e) == Forget(q, key)

\* what the worker does with the handler's answer
requeueOrForget(q, key, e) ==
    IF e # "nil" THEN AddRateLimited(q, key) ELSE Forget(q, key)

\* mutant: the worker does not call Done
release_NoDone(q, key) == q

\* the deferred Done
release(q, key) == Done(q, key)

processNextWorkItemGet(w) ==
    /\ pc[w] = "Get"
    /\ workqueue.queue # <<>>
    /\ obj' = [obj EXCEPT ![w] = Head(workqueue.queue)]
    /\ workqueue' = checkout(workqueue)
    /\ pc' = [pc EXCEPT ![w] = "syncHandler"]
    /\ dedup' = Pulled(dedup, Head(workqueue.queue))
    /\ UNCHANGED <<envVars, run, pipeline, copyPipeline, err, calls, deleted,
                   jenkinsPipeline, callErr, lookup, updates>>

\* Get reports shutdown: processNextWorkItem returns false and the worker ends
processNextWorkItemShutdown(w) ==
    /\ pc[w] = "Get"
    /\ workqueue.queue = <<>>
    /\ workqueue.shuttingDown
    /\ pc' = [pc EXCEPT ![w] = "exited"]
    /\ UNCHANGED <<envVars, workqueue, run, dedup>>
    /\ UNCHANGED localVars

processNextWorkItemResult(w) ==
    /\ pc[w] = "result"
    /\ workqueue' = requeueOrForget(workqueue, obj[w], err[w])
    /\ pc' = [pc EXCEPT ![w] = "Done"]
    /\ pipeline' = [pipeline EXCEPT ![w] = NotFound]
    /\ copyPipeline' = [copyPipeline EXCEPT ![w] = NotFound]
    /\ calls' = [calls EXCEPT ![w] = <<>>]
    /\ deleted' = [deleted EXCEPT ![w] = NotCalled]
    /\ jenkinsPipeline' = [jenkinsPipeline EXCEPT ![w] = NotRead]
    /\ callErr' = [callErr EXCEPT ![w] = NotCalled]
    /\ lookup' = [lookup EXCEPT ![w] = "none"]
    /\ updates' = [updates EXCEPT ![w] = <<>>]
    /\ dedup' = IF err[w] # "nil" THEN Failed(dedup, obj[w]) ELSE dedup
    /\ UNCHANGED <<envVars, run, obj, err>>

processNextWorkItemDone(w) ==
    /\ pc[w] = "Done"
    /\ workqueue' = release(workqueue, obj[w])
    /\ pc' = [pc EXCEPT ![w] = "Get"]
    /\ obj' = [obj EXCEPT ![w] = NoKey]
    /\ err' = [err EXCEPT ![w] = "none"]
    /\ UNCHANGED <<envVars, run, pipeline, copyPipeline, calls, deleted,
                   jenkinsPipeline, callErr, lookup, updates, dedup>>

Run ==
    /\ run = "NewController"
    /\ run' = "WaitForCacheSync"
    /\ UNCHANGED <<envVars, workqueue, pc, dedup>>
    /\ UNCHANGED localVars

\* the cache has synced: the workers are started
RunWorkers ==
    /\ run = "WaitForCacheSync"
    /\ hasSynced
    /\ run' = "running"
    /\ pc' = [w \in Workers |-> "Get"]
    /\ UNCHANGED <<envVars, workqueue, dedup>>
    /\ UNCHANGED localVars

\* stopCh is closed: Run returns and its deferred ShutDown runs
RunStop ==
    /\ run \in {"WaitForCacheSync", "running"}
    /\ run' = "returned"
    /\ workqueue' = ShutDown(workqueue)
    /\ UNCHANGED <<envVars, pc, dedup>>
    /\ UNCHANGED localVars

\* a step of the running controller or of the world around it
Running ==
    \/ \E k \in Keys, spec \in Specs, f \in {<<>>, <<OtherFinalizerName>>} :
          UserCreate(k, spec, f)
    \/ \E k \in Keys, spec \in Specs : UserUpdate(k, spec)
    \/ \E k \in Keys : UserDelete(k)
    \/ \E k \in Keys : OtherFinalizerDone(k)
    \/ \E n \in Namespaces \cup {NotFound} : NamespaceChange(n)
    \/ InformerList
    \/ \E n \in Namespaces \cup {NotFound} : NamespaceInformerList(n)
    \/ \E k \in Keys : InformerEvent(k)
    \/ \E k \in Keys : InformerResync(k)
    \/ \E k \in Keys : WaitingLoop(k)
    \/ Run
    \/ RunWorkers
    \/ \E w \in Workers : processNextWorkItemGet(w)
    \/ \E w \in Workers : syncHandler(w)
    \/ \E w \in Workers : persist(w)
    \/ \E w \in Workers : processNextWorkItemResult(w)
    \/ \E w \in Workers : processNextWorkItemDone(w)

\* the stop signal and what follows from it
Stopping ==
    \/ RunStop
    \/ \E w \in Workers : processNextWorkItemShutdown(w)

Next == Running \/ Stopping

Spec == Init /\ [][Next]_vars

(***************************************************************************)
(* The controller while no stop signal comes: every goroutine that can     *)
(* take a step takes one, and the delay of a parked key ends.              *)
(***************************************************************************)
worker(w) ==
    \/ processNextWorkItemGet(w)
    \/ syncHandler(w)
    \/ persist(w)
    \/ processNextWorkItemResult(w)
    \/ processNextWorkItemDone(w)

InitLive == InitAfter(MaxUserOps - LiveUserOps)

Fairness ==
    /\ \A w \in Workers : WF_vars(worker(w))
    /\ \A k \in Keys : WF_vars(WaitingLoop(k))
    /\ WF_vars(InformerList)
    /\ WF_vars(\E n \in Namespaces \cup {NotFound} : NamespaceInformerList(n))
    /\ WF_vars(Run)
    /\ WF_vars(RunWorkers)

LiveSpec == InitLive /\ [][Running]_vars /\ Fairness

\* remote calls and store writes succeed in the end: a handler run that can get
\* past its calls to the DevOps service, and a write that the API server can
\* accept, are not refused for ever
\* the steps of syncHandler(w) in which the listers answer and no call to the
\* DevOps service fails
syncHandlerCallsSucceed(w) ==
    /\ pc[w] = "syncHandler"
    /\ namespace # NotFound
    /\ isDevOpsProjectAdminNamespace(namespace)
    /\ cache[obj[w]] # NotFound
    /\ \/ /\ ~cache[obj[w]].deletionTimestamp
          /\ Reconciled(w, obj[w], cache[obj[w]],
                        syncLive(cache[obj[w]], remote[obj[w]],
                                 [get |-> FALSE, call |-> FALSE]))
       \/ /\ cache[obj[w]].deletionTimestamp
          /\ \E answer \in {a \in DeleteAnswers(remote[obj[w]]) : delSuccess(a)} :
                Reconciled(w, obj[w], cache[obj[w]],
                           syncDeleting(cache[obj[w]], remote[obj[w]], answer))

EventualSuccess ==
    \A w \in Workers :
        /\ SF_vars(syncHandlerCallsSucceed(w))
        /\ SF_vars(persist(w) /\ err'[w] = "nil")

\* the informer delivers every watch event
Delivery == \A k \in Keys : WF_vars(InformerEvent(k))

ProgressSpec == LiveSpec /\ Delivery /\ EventualSuccess

(***************************************************************************)
(* Vocabulary of the properties.                                           *)
(***************************************************************************)
\* the worker's syncHandler invocation has returned and its queue calls are due
Returned(w) == pc[w] = "result"

\* the invocation of w read a pipeline without / with a deletion marker
ReadLive(w) == pipeline[w] # NotFound /\ ~pipeline[w].deletionTimestamp
ReadDeleting(w) == pipeline[w] # NotFound /\ pipeline[w].deletionTimestamp

HasControllerFinalizer(p) ==
    p # NotFound /\ \E i \in 1..Len(p.finalizers) : p.finalizers[i] = PipelineFinalizerName

\* the service answered the delete with success or with a 404
DeleteConfirmed(e) == e = NoError \/ e.code = StatusNotFound

SyncStatusOf(p) == MapGet(p.annotations, PipelineSyncStatusAnnoKey)
SpecHashOf(p) == MapGet(p.annotations, PipelineSpecHash)

\* a namespace with the DevOps label that a DevOpsProject owns
Eligible(n) ==
    /\ n # NotFound
    /\ DevOpsProjectLabelKey \in n.labels
    /\ \E i \in 1..Len(n.ownerReferences) : n.ownerReferences[i] = ResourceKindDevOpsProject

\* C1 (deletion safety): a step takes the controller's finalizer off a stored
\* pipeline only if it is the write of a handler run whose own remote delete
\* answered success or 404; and a run on a pipeline with a deletion marker and
\* the finalizer whose remote delete failed otherwise returns an error and has
\* written nothing to the store
C1_StepRemovesFinalizerOnlyAfterDelete ==
    \A k \in Keys :
        (HasControllerFinalizer(store[k]) /\ ~HasControllerFinalizer(store'[k]))
        => \E w \in Workers :
              /\ pc[w] = "persist" /\ pc'[w] = "result" /\ obj[w] = k
              /\ ReadDeleting(w)
              /\ DeleteConfirmed(deleted[w])
              /\ updates'[w] = <<"ok">>

C1_FailedDeleteWritesNothing ==
    \A w \in Workers :
        (ReadDeleting(w) /\ HasControllerFinalizer(pipeline[w])
         /\ pc[w] \in {"persist", "result"})
        => /\ deleted[w] # NotCalled
           /\ ~DeleteConfirmed(deleted[w])
              => (Returned(w) /\ err[w] = "error" /\ updates[w] = <<>>
                  /\ HasControllerFinalizer(copyPipeline[w]))

C1_DeletionSafety ==
    [][C1_StepRemovesFinalizerOnlyAfterDelete /\ C1_FailedDeleteWritesNothing']_vars

C1_Witness ==
    \E w \in Workers :
        /\ Returned(w) /\ ReadDeleting(w) /\ HasControllerFinalizer(pipeline[w])
        /\ deleted[w] = ServiceError(StatusInternalServerError)
        /\ err[w] = "error" /\ updates[w] = <<>>
        /\ HasControllerFinalizer(store[obj[w]])

\* C2 (idempotency fast path): a run that read a live pipeline whose sync-status
\* is successful and whose spec-hash is the hash of its spec has made no call to
\* the DevOps service and returns success
C2_FastPathNoRemoteCalls ==
    \A w \in Workers :
        (Returned(w) /\ ReadLive(w)
         /\ SyncStatusOf(pipeline[w]) = StatusSuccessful
         /\ SpecHashOf(pipeline[w]) = computeHash(pipeline[w].spec))
        => (calls[w] = <<>> /\ err[w] = "nil")

C2_Witness ==
    \E w \in Workers :
        /\ Returned(w) /\ ReadLive(w)
        /\ SyncStatusOf(pipeline[w]) = StatusSuccessful
        /\ SpecHashOf(pipeline[w]) = computeHash(pipeline[w].spec)
        /\ calls[w] = <<>> /\ err[w] = "nil"
        /\ remote[obj[w]] = [exists |-> TRUE, spec |-> pipeline[w].spec]

\* C3 (first sync): every run that completes the live branch and whose write is
\* accepted has stored sync-status = successful and spec-hash = hash(spec)
C3_SyncStoresStatusAndHash ==
    \A w \in Workers :
        (Returned(w) /\ ReadLive(w) /\ err[w] = "nil" /\ updates[w] = <<"ok">>)
        => /\ SyncStatusOf(copyPipeline[w]) = StatusSuccessful
           /\ SpecHashOf(copyPipeline[w]) = computeHash(copyPipeline[w].spec)

\* C4 (status implies hash): whenever the stored sync-status is successful, the
\* stored spec-hash is the hash of the spec of the last successful sync
C4_SuccessfulImpliesHashOfLastSync ==
    \A k \in Keys :
        (store[k] # NotFound /\ SyncStatusOf(store[k]) = StatusSuccessful)
        => SpecHashOf(store[k]) = computeHash(lastSynced[k])

\* C5 (eligibility gate): a handler run that finds the namespace but finds it
\* ineligible calls neither the DevOps service nor the API server and returns
\* an error, whatever the pipeline looks like; the worker then counts the
\* failure and, unless the queue is shut down, parks the key for a delayed retry
C5_IneligibleRunDoesNothing ==
    \A w \in Workers :
        (pc[w] = "syncHandler" /\ pc'[w] # "syncHandler"
         /\ namespace # NotFound /\ ~Eligible(namespace))
        => /\ pc'[w] = "result" /\ err'[w] = "error"
           /\ calls'[w] = <<>> /\ updates'[w] = <<>>
           /\ remote' = remote /\ store' = store

C5_EarlyErrorIsRequeued ==
    \A w \in Workers :
        (pc[w] = "result" /\ pc'[w] = "Done" /\ err[w] = "error" /\ pipeline[w] = NotFound)
        => /\ obj[w] \in workqueue'.failures
           /\ ~workqueue.shuttingDown => obj[w] \in workqueue'.waiting

C5_EligibilityGate ==
    [][C5_IneligibleRunDoesNothing /\ C5_EarlyErrorIsRequeued]_vars

C5_Witness ==
    \E w \in Workers :
        /\ Returned(w) /\ err[w] = "error" /\ calls[w] = <<>> /\ updates[w] = <<>>
        /\ namespace # NotFound /\ ~Eligible(namespace)
        /\ cache[obj[w]] # NotFound
        /\ cache[obj[w]].deletionTimestamp
        /\ HasControllerFinalizer(cache[obj[w]])
        /\ remote[obj[w]].exists

Range(seq) == {seq[i] : i \in 1..Len(seq)}
CheckedOut(w) == pc[w] \in {"syncHandler", "persist", "result", "Done"}

\* the lister answers that end a run: not found, and any other error
NotFoundAnswers == {"namespaceNotFound", "pipelineNotFound"}
ErrorAnswers == {"namespaceError", "pipelineError"}

\* C11 (terminal not-found): when the namespace is not found, or it is eligible
\* and the pipeline is not found, the run ends at that lookup; a lookup that
\* answers not found returns nil, and one that fails otherwise returns the
\* error, both without a call to the DevOps service and without a write; the
\* worker then forgets the key without adding it again after not found, and
\* parks it for a retry after an error
C11_LookupEndsRun ==
    \A w \in Workers :
        (pc[w] = "syncHandler" /\ pc'[w] # "syncHandler")
        => /\ namespace = NotFound
              => lookup'[w] \in {"namespaceNotFound", "namespaceError"}
           /\ (Eligible(namespace) /\ cache[obj[w]] = NotFound)
              => lookup'[w] \in {"pipelineNotFound", "pipelineError", "namespaceError"}
           /\ lookup'[w] \in NotFoundAnswers \cup ErrorAnswers
              => /\ pc'[w] = "result"
                 /\ err'[w] = IF lookup'[w] \in NotFoundAnswers THEN "nil" ELSE "error"
                 /\ calls'[w] = <<>> /\ updates'[w] = <<>>
                 /\ remote' = remote /\ store' = store

C11_DroppedOrRequeued ==
    \A w \in Workers :
        (pc[w] = "result" /\ pc'[w] = "Done")
        => /\ lookup[w] \in NotFoundAnswers
              => /\ obj[w] \notin workqueue'.failures
                 /\ workqueue'.queue = workqueue.queue
                 /\ workqueue'.dirty = workqueue.dirty
                 /\ workqueue'.waiting = workqueue.waiting
           /\ lookup[w] \in ErrorAnswers
              => /\ obj[w] \in workqueue'.failures
                 /\ ~workqueue.shuttingDown => obj[w] \in workqueue'.waiting

C11_TerminalNotFound == [][C11_LookupEndsRun /\ C11_DroppedOrRequeued]_vars

C11_Witness ==
    \E w \in Workers :
        /\ Returned(w) /\ lookup[w] = "namespaceNotFound" /\ err[w] = "nil"
        /\ namespaceSynced /\ namespace = NotFound
        /\ cache[obj[w]] # NotFound
        /\ obj[w] \in workqueue.failures
        /\ ~workqueue.shuttingDown

\* C6 (at most one worker per key): no two workers hold the same key at once; a
\* key that is checked out is not in the queue (an add meanwhile only marks it
\* dirty), and the queue never holds a key twice
C6_AtMostOneWorkerPerKey ==
    /\ \A w1, w2 \in Workers :
          (w1 # w2 /\ CheckedOut(w1) /\ CheckedOut(w2)) => obj[w1] # obj[w2]
    /\ \A w \in Workers : CheckedOut(w) => obj[w] \notin Range(workqueue.queue)
    /\ \A i, j \in 1..Len(workqueue.queue) :
          workqueue.queue[i] = workqueue.queue[j] => i = j

C6_Witness ==
    \E w1, w2 \in Workers :
        /\ w1 # w2
        /\ pc[w1] \in {"syncHandler", "persist"}
        /\ obj[w1] \in workqueue.dirty
        /\ obj[w1] \in workqueue.failures
        /\ pc[w2] = "Get"
        /\ workqueue.queue = <<>>
        /\ ~workqueue.shuttingDown

\* the key waits for a worker: in the queue, or dirty while it is checked out
Pending(k) ==
    \/ k \in Range(workqueue.queue)
    \/ k \in workqueue.dirty /\ k \in workqueue.processing

\* C7 (dedup): however often a key is enqueued before it is pulled, it is pulled
\* once for these enqueues (no second pull without a new enqueue or a failure),
\* and as long as it has not been pulled it waits for a worker
C7_Dedup ==
    \A k \in Keys :
        /\ dedup[k].runs <= 1
        /\ (dedup[k].adds >= 1 /\ dedup[k].runs = 0) => Pending(k)

C7_Witness ==
    \E k \in Keys :
        /\ dedup[k].adds = 2 /\ dedup[k].runs = 1
        /\ ~Pending(k)
        /\ k \notin workqueue.processing
        /\ k \notin workqueue.waiting
        /\ k \notin workqueue.failures
        /\ ~workqueue.shuttingDown

\* the controller is at rest for the key: the informer has delivered every
\* event, the key is neither queued nor parked nor held by a worker, and the
\* queue is open
Settled(k) ==
    /\ watch[k] = <<>> /\ cache[k] = store[k]
    /\ ~Pending(k) /\ k \notin workqueue.waiting
    /\ \A w \in Workers : CheckedOut(w) => obj[w] # k
    /\ ~workqueue.shuttingDown

\* C8 (no orphaned remote state): whenever the DevOps service holds the config
\* of a pipeline, the stored pipeline exists and carries the controller's
\* finalizer; stated for the states in which the controller is at rest for the
\* key in an eligible namespace, where no handler run is left that could
\* still add the finalizer
C8_NoOrphanedRemote ==
    \A k \in Keys :
        (remote[k].exists /\ Settled(k) /\ Eligible(namespace))
        => HasControllerFinalizer(store[k])

\* C9 (deletion completion): for a pipeline with a deletion marker, a run whose
\* remote delete answered success or 404 takes the controller's finalizer, and
\* nothing else, off the copy, writes the copy once and returns success iff the
\* write is accepted; a run that finds no controller finalizer calls nothing,
\* writes nothing and returns success
C9_DeletionCompletion ==
    \A w \in Workers :
        (pc[w] \in {"persist", "result"} /\ ReadDeleting(w))
        => IF HasControllerFinalizer(pipeline[w])
           THEN DeleteConfirmed(deleted[w])
                => /\ copyPipeline[w] =
                        [pipeline[w] EXCEPT !.finalizers =
                            SelectSeq(@, LAMBDA f : f # PipelineFinalizerName)]
                   /\ calls[w] = <<"DeleteProjectPipeline">>
                   /\ Returned(w)
                        => /\ Len(updates[w]) = 1
                           /\ updates[w] = <<"ok">> <=> err[w] = "nil"
           ELSE /\ calls[w] = <<>> /\ updates[w] = <<>>
                /\ copyPipeline[w] = pipeline[w]
                /\ Returned(w) => err[w] = "nil"

C9_Witness ==
    \E w \in Workers :
        /\ Returned(w) /\ ReadDeleting(w)
        /\ pipeline[w].finalizers = <<OtherFinalizerName, PipelineFinalizerName>>
        /\ deleted[w] = ErrorResponse(StatusNotFound)
        /\ copyPipeline[w].finalizers = <<OtherFinalizerName>>
        /\ updates[w] = <<"ok">> /\ err[w] = "nil"
        /\ store[obj[w]] # NotFound
        /\ store[obj[w]].finalizers = <<OtherFinalizerName>>

\* C10 (retry protocol): a worker that pulled a key runs syncHandler once and
\* then calls Done once; after an error the key is parked for a delayed retry
\* and its failure counted before Done, and it is eventually handled again;
\* after a success the failure count is forgotten and the worker adds nothing
C10_OneInvocationPerPull ==
    \A w \in Workers :
        pc'[w] # pc[w]
        => /\ pc[w] = "Get" => pc'[w] = "syncHandler"
           /\ pc[w] = "syncHandler" => pc'[w] \in {"persist", "result"}
           /\ pc[w] = "persist" => pc'[w] = "result"
           /\ pc[w] = "result" => pc'[w] = "Done"
           /\ pc[w] = "Done" => pc'[w] = "Get"

C10_ResultThenDone ==
    \A w \in Workers :
        /\ (pc[w] = "result" /\ pc'[w] = "Done" /\ err[w] = "error")
           => /\ obj[w] \in workqueue'.failures
              /\ ~workqueue.shuttingDown => obj[w] \in workqueue'.waiting
              /\ obj[w] \in workqueue'.processing
        /\ (pc[w] = "result" /\ pc'[w] = "Done" /\ err[w] = "nil")
           => /\ obj[w] \notin workqueue'.failures
              /\ workqueue'.queue = workqueue.queue
              /\ workqueue'.dirty = workqueue.dirty
              /\ workqueue'.waiting = workqueue.waiting
              /\ obj[w] \in workqueue'.processing
        /\ (pc[w] = "Done" /\ pc'[w] = "Get")
           => /\ obj[w] \in workqueue.processing
              /\ obj[w] \notin workqueue'.processing

C10_FailedKeyIsHandledAgain ==
    \A w \in Workers, k \in Keys :
        (pc[w] = "result" /\ err[w] = "error" /\ obj[w] = k)
        ~> (\E v \in Workers : pc[v] = "syncHandler" /\ obj[v] = k)

C10_RetryProtocol ==
    /\ [][C10_OneInvocationPerPull /\ C10_ResultThenDone]_vars
    /\ C10_FailedKeyIsHandledAgain

C10_Witness ==
    \E w \in Workers :
        /\ pc[w] = "syncHandler"
        /\ obj[w] \in workqueue.failures
        /\ obj[w] \notin workqueue.waiting
        /\ cache[obj[w]] # NotFound
        /\ cache[obj[w]].deletionTimestamp
        /\ HasControllerFinalizer(cache[obj[w]])
        /\ remote[obj[w]].exists

\* the pipeline and the config of the DevOps service agree, and the stored
\* pipeline carries the finalizer, the status and the hash of its spec
Consistent(k) ==
    /\ store[k] # NotFound
    /\ remote[k] = [exists |-> TRUE, spec |-> store[k].spec]
    /\ HasControllerFinalizer(store[k])
    /\ SyncStatusOf(store[k]) = StatusSuccessful
    /\ SpecHashOf(store[k]) = computeHash(store[k].spec)

LiveAndEligible(k) ==
    /\ store[k] # NotFound /\ ~store[k].deletionTimestamp
    /\ namespaceSynced /\ Eligible(namespace)

\* C12 (eventual consistency and quiescence): a pipeline that stays live, in a
\* namespace that is eligible whenever namespaceLister knows it, is in the end
\* consistent with the DevOps service for good, with the controller at rest
\* for its key: no handler run, hence no remote call and no write, follows
C12_EventualConsistency ==
    \A k \in Keys :
        ([](namespaceSynced => Eligible(namespace)) /\ <>[]LiveAndEligible(k))
        => <>[](Consistent(k) /\ Settled(k))


\* the run took the fast path: it read a live pipeline whose status is
\* successful and whose stored hash is the hash of its spec
TookFastPath(w) ==
    /\ Returned(w) /\ ReadLive(w)
    /\ SyncStatusOf(pipeline[w]) = StatusSuccessful
    /\ SpecHashOf(pipeline[w]) = computeHash(pipeline[w].spec)

\* C13 (soundness of the skip): whenever a run takes the fast path, the DevOps
\* service holds the config of the pipeline and its spec is the spec the run read
C13_SkipIsSound ==
    \A w \in Workers :
        TookFastPath(w)
        => remote[obj[w]] = [exists |-> TRUE, spec |-> pipeline[w].spec]


\* GetProjectPipelineConfig reported that the service holds no such config
ReportsNotFound(e) ==
    e \in {ServiceError(StatusNotFound), ErrorResponse(StatusNotFound)}

\* the run read a live pipeline and did not take the fast path
TookSlowPath(w) ==
    /\ pc[w] \in {"persist", "result"} /\ lookup[w] = "found"
    /\ ReadLive(w)
    /\ ~alreadySynced(pipeline[w])

Called(w, name) == \E i \in DOMAIN calls[w] : calls[w][i] = name

\* C14 (create/update/skip decision): a run that handles a live pipeline off the
\* fast path reads the remote config first, then creates exactly if the read
\* reported not found, updates exactly if the read returned a config with another
\* spec, makes no further call exactly if it returned a config with the same
\* spec, and never deletes
C14_CreateUpdateSkip ==
    \A w \in Workers :
        TookSlowPath(w)
        => /\ Len(calls[w]) \in {1, 2}
           /\ calls[w][1] = "GetProjectPipelineConfig"
           /\ Called(w, "CreateProjectPipeline")
                <=> ReportsNotFound(jenkinsPipeline[w].err)
           /\ Called(w, "UpdateProjectPipeline")
                <=> /\ jenkinsPipeline[w].err = NoError
                    /\ jenkinsPipeline[w].spec # pipeline[w].spec
           /\ Len(calls[w]) = 1
                <=> /\ jenkinsPipeline[w].err = NoError
                    /\ jenkinsPipeline[w].spec = pipeline[w].spec
           /\ ~Called(w, "DeleteProjectPipeline")


\* the remote read of the run failed for a reason other than not found
ReadFailed(w) ==
    /\ jenkinsPipeline[w].err \notin {NotCalled, NoError}
    /\ ~ReportsNotFound(jenkinsPipeline[w].err)

\* the remote create or update of the run failed
WriteCallFailed(w) == callErr[w] \notin {NotCalled, NoError}

\* C15 (remote failure on the live path): when a remote call of a run over a
\* live pipeline fails (the read for a reason other than not found, the create
\* or the update), the run returns an error, the failed call is its last remote
\* call, and it issues no write to the store
C15_RemoteFailureNoBookkeeping ==
    \A w \in Workers :
        (lookup[w] = "found" /\ ReadLive(w) /\ (ReadFailed(w) \/ WriteCallFailed(w)))
        => /\ Returned(w) /\ err[w] = "error"
           /\ ReadFailed(w) => calls[w] = <<"GetProjectPipelineConfig">>
           /\ updates[w] = <<>>


\* a pipeline stored with the annotations of a finished sync and without the
\* controller's finalizer, as a manifest exported from another cluster has them
ImportedPipeline(spec, finalizers) ==
    [NewPipeline(spec, finalizers, 1) EXCEPT
        !.annotations = MapSet(MapSet(EmptyMap, PipelineSyncStatusAnnoKey,
                                      StatusSuccessful),
                               PipelineSpecHash, computeHash(spec))]

\* the controller starts on such pipelines
InitImported ==
    InitWith({ImportedPipeline(<<97>>, f) : f \in {<<>>, <<OtherFinalizerName>>}}, 0)

ImportSpec == InitImported /\ [][Next]_vars

\* C16 (finalizer ensured on every live pass): when a run over a live pipeline
\* in an eligible namespace returns success, the pipeline carried the
\* controller's finalizer when read, or the run has written a copy carrying it
C16_FinalizerEnsured ==
    \A w \in Workers :
        (Returned(w) /\ err[w] = "nil" /\ lookup[w] = "found" /\ ReadLive(w))
        => \/ HasControllerFinalizer(pipeline[w])
           \/ /\ HasControllerFinalizer(copyPipeline[w])
              /\ updates[w] = <<"ok">>


\* the run of w replays a run of its key whose remote call of the given kind
\* succeeded and whose write failed, and it has read the same pipeline
Replays(w, kind) ==
    /\ lookup[w] = "found"
    /\ lost[obj[w]].phase = "replay" /\ lost[obj[w]].kind = kind
    /\ pipeline[w] = lost[obj[w]].pipeline

\* C17 (replay after a lost write): a run whose remote call succeeded and whose
\* write failed returns an error; the next run of the key, reading the same
\* pipeline, makes no create and no update when its remote read succeeds and,
\* when it returns success, has written sync-status successful and the hash of
\* the spec; after a lost delete it deletes again, takes not found for success
\* and, when it returns success, has written the copy without the finalizer
C17_ReplayIsSafe ==
    \A w \in Workers :
        /\ (lookup[w] = "found" /\ lost[obj[w]].phase = "lost" /\ Returned(w))
           => err[w] = "error"
        /\ Replays(w, "live")
           => /\ jenkinsPipeline[w].err = NoError
                 => calls[w] = <<"GetProjectPipelineConfig">>
              /\ (Returned(w) /\ err[w] = "nil")
                 => /\ updates[w] = <<"ok">>
                    /\ SyncStatusOf(copyPipeline[w]) = StatusSuccessful
                    /\ SpecHashOf(copyPipeline[w]) = computeHash(pipeline[w].spec)
        /\ Replays(w, "deleting")
           => /\ calls[w] = <<"DeleteProjectPipeline">>
              /\ ReportsNotFound(deleted[w]) => ~(Returned(w) /\ updates[w] = <<>>)
              /\ (Returned(w) /\ err[w] = "nil")
                 => /\ updates[w] = <<"ok">>
                    /\ ~HasControllerFinalizer(copyPipeline[w])


\* the step is a call of the API server's Update by the run of w
Writes(w) == Len(updates'[w]) > Len(updates[w])

\* C18 (write-if-changed): a run calls Update at most once, only as its last
\* step, and exactly if the copy differs from the pipeline as read; the call
\* creates no pipeline, leaves the stored spec and deletion marker as they are,
\* and the pipeline is gone after it only if it was marked for deletion
C18_WriteIfChanged ==
    [][\A w \in Workers :
          /\ Writes(w) => pc[w] = "persist" /\ updates[w] = <<>>
          /\ (pc[w] = "persist" /\ pc'[w] # "persist")
             => /\ Writes(w) <=> copyPipeline[w] # pipeline[w]
                /\ store[obj[w]] = NotFound => store'[obj[w]] = NotFound
                /\ (store[obj[w]] # NotFound /\ store'[obj[w]] = NotFound)
                   => store[obj[w]].deletionTimestamp
                /\ (store[obj[w]] # NotFound /\ store'[obj[w]] # NotFound)
                   => /\ store'[obj[w]].spec = store[obj[w]].spec
                      /\ store'[obj[w]].deletionTimestamp
                           = store[obj[w]].deletionTimestamp]_vars

\* a run has written its changed copy, and the store holds it
C18_Witness ==
    \E w \in Workers :
        /\ Returned(w) /\ lookup[w] = "found"
        /\ copyPipeline[w] # pipeline[w]
        /\ updates[w] = <<"ok">>
        /\ store[obj[w]] # NotFound
        /\ store[obj[w]].annotations = copyPipeline[w].annotations


\* C19 (start gating): a worker handles a key only after the pipeline cache and
\* the namespace cache have both finished their initial list, and when Run
\* returns before the caches have synced no worker has been started
C19_StartGating ==
    \A w \in Workers :
        /\ CheckedOut(w) => hasSynced /\ namespaceSynced
        /\ (run = "returned" /\ ~hasSynced) => pc[w] = "notStarted"


\* the worker goroutines get to see that the queue is shut down
Termination == \A w \in Workers : WF_vars(processNextWorkItemShutdown(w))

\* the controller with its stop signal, under fair scheduling
StopSpec == InitLive /\ [][Next]_vars /\ Fairness /\ Termination

\* the queue is shut down, holds no key and no key is being handled
Drained ==
    /\ workqueue.shuttingDown
    /\ workqueue.queue = <<>>
    /\ workqueue.processing = {}

\* no worker loop is running
AllExited == \A w \in Workers : pc[w] \in {"notStarted", "exited"}

\* C20 (shutdown terminates the pool): when Run has returned the queue is shut
\* down; a worker leaves its loop only between two keys, when the queue is shut
\* down and empty, and never comes back; a shut down, drained queue stays
\* drained, so no handler starts any more; and once Run has returned every
\* worker eventually has left its loop, Done called on every key it had taken
C20_ShutdownTerminates ==
    /\ [](run = "returned" => workqueue.shuttingDown)
    /\ [][\A w \in Workers :
            /\ pc[w] = "exited" => pc'[w] = "exited"
            /\ (pc[w] # "exited" /\ pc'[w] = "exited")
               => /\ pc[w] = "Get" /\ obj[w] = NoKey
                  /\ workqueue.shuttingDown /\ workqueue.queue = <<>>
            /\ Drained => Drained' /\ pc'[w] # "syncHandler"]_vars
    /\ (run = "returned") ~> (AllExited /\ workqueue.processing = {})

\* after the stop signal one worker has left its loop while the other is still
\* in the handler run it had begun
C20_Witness ==
    /\ run = "returned"
    /\ \E w1 \in Workers, w2 \in Workers :
          /\ pc[w1] = "exited"
          /\ pc[w2] = "persist"


==========================================================================
